---- MODULE Spec2Model ----
(***************************************************************************)
(* Model of the retry decorator of my_agent/test.py: retry(...) validates  *)
(* its arguments and builds the wrapper f_retry; every call of f_retry     *)
(* owns two locals, mtries and mdelay, and alternates invocations of the   *)
(* wrapped operation f with sleeps.                                        *)
(*                                                                         *)
(* Durations are fixed-point numbers.  delay, jitter and mdelay count      *)
(* ticks of 1/Scale second; a slept duration counts fine units of          *)
(* 1/(Scale*Scale) second, so that the product current_delay * jitter of   *)
(* the percentage mode is a whole number of fine units.  backoff and tries *)
(* are plain integers.  The log message of a retry prints the duration     *)
(* with two decimals, a whole number of hundredths of a second.            *)
(*                                                                         *)
(* The module also models run_with_rate_limit_handling of                  *)
(* my_agent/agent.py and the class Factorial of "my_agent/test copy.py";   *)
(* each of the three programs has its own variables and specification.     *)
(***************************************************************************)
EXTENDS Integers, Sequences, FiniteSets, TLC

\* ---------------------------------------------------------------- bounds
MaxTries   == 3     \* largest value of tries passed to retry
MaxDelay   == 3     \* largest delay passed to retry, in ticks
MaxBackoff == 2     \* largest backoff passed to retry
MaxRetries   == 2   \* largest max_retries passed to run_with_rate_limit_handling
MaxBaseDelay == 2   \* largest base_delay passed to it, in seconds
NumEvents    == 2   \* events one complete run of runner.run yields
MaxN         == 4   \* largest number a Factorial is made for
MaxOps       == 3   \* methods called on one Factorial object
Scale      == 4     \* ticks per second

Threads == {1, 2}

\* b ** n
RECURSIVE Pow(_, _)
Pow(b, n) == IF n = 0 THEN 1 ELSE b * Pow(b, n - 1)

\* ------------------------------------------------------ exception classes
\* The classes the demo operations raise and the classes the demo
\* configurations catch, with their base class in Python's hierarchy.
Parent ==
    ("ConnectionError" :> "OSError") @@ ("TimeoutError" :> "OSError") @@
    ("PermissionError" :> "OSError") @@ ("OSError" :> "Exception") @@
    ("TypeError" :> "Exception") @@ ("Exception" :> "BaseException")

ExceptionClasses == DOMAIN Parent \cup {"BaseException"}

\* A member of the exceptions tuple that is no exception class.
NotAClass == "1"

RECURSIVE IsSubclass(_, _)
IsSubclass(k, t) ==
    \/ k = t
    \/ k \in DOMAIN Parent /\ IsSubclass(Parent[k], t)

\* The kinds network_operation raises: ConnectionError and TimeoutError,
\* which its decorator catches, and PermissionError, which it does not.
RaisedKinds == {"ConnectionError", "TimeoutError", "PermissionError"}

\* What one invocation of the wrapped operation does: return a value or
\* raise an exception of some kind.  The operation counts its attempts, as
\* the demo operation flaky_function_any_exception does, and the value it
\* returns and the message of the exception it raises carry the number n of
\* the attempt, so that the outcomes of two attempts are never the same
\* object.
Returned(n)  == [type |-> "return", kind |-> "-", val |-> n]
Raised(k, n) == [type |-> "raise", kind |-> k, val |-> n]
Behaviours   == {"return"} \cup RaisedKinds
Outcome(b, n) == IF b = "return" THEN Returned(n) ELSE Raised(b, n)
NoResult == [type |-> "none", kind |-> "-", val |-> 0]

\* The TypeError the interpreter raises when an except clause is given a
\* tuple with a member that is no exception class; it carries no attempt
\* number.
MatchError == Raised("TypeError", 0)

\* ------------------------------------------------------- retry arguments
TupleOf(items) == [is_tuple |-> TRUE, items |-> items]
BareClass(c)   == [is_tuple |-> FALSE, items |-> <<c>>]

ExceptionsChoices ==
    { TupleOf(<<"Exception">>),
      TupleOf(<<"ConnectionError", "TimeoutError">>),
      TupleOf(<<>>),
      TupleOf(<<"ConnectionError", NotAClass>>),
      BareClass("Exception") }

\* jitter: negative, none, 1/Scale of the delay (percentage mode), and 1.0 s
\* (the least value of the absolute mode).
JitterChoices == {-1, 0, 1, Scale}

\* delay: negative, none, one tick, and the largest.
DelayChoices == {-1, 0, 1, MaxDelay}

Args ==
    [tries : 0..MaxTries, delay : DelayChoices, backoff : 0..MaxBackoff,
     jitter : JitterChoices, exceptions : ExceptionsChoices]

\* The defaults of retry's signature: tries=3, delay=1, backoff=2,
\* exceptions=(Exception,), jitter=0.
DefaultArgs ==
    [tries |-> 3, delay |-> 1 * Scale, backoff |-> 2, jitter |-> 0,
     exceptions |-> TupleOf(<<"Exception">>)]

VARIABLES
    callers,    \* the threads that call the wrapper
    cfg,        \* the arguments retry was given (closure of f_retry)
    wrapper,    \* "none", "f_retry", or the error retry raised
    pc,         \* per thread: "idle", "attempt", "sleeping", "done"
    prev,       \* per thread: how the previous call of the wrapper ended
    mtries,     \* per thread: local mtries of the running call
    mdelay,     \* per thread: local mdelay of the running call
    outcomes,   \* per thread: outcomes of the invocations of this call
    sleeps,     \* per thread: the sleeps of this call
    logs,       \* per thread: the warnings logged by this call
    result      \* per thread: how the call ended

\* run_with_rate_limit_handling (my_agent/agent.py)
VARIABLES
    rl_pc,        \* "idle", "created" (generator not started), "running" (at
                  \* runner.run), "iterating" (in the
                  \* for loop), "suspended" (at yield), "sleeping", "done"
    rl_args,      \* max_retries and base_delay of the call
    retries,      \* local retries, Unset before the generator has started
    rl_runs,      \* the runs of runner.run started: events yielded, how the
                  \* run ended, whether the consumer threw the error
    rl_waits,     \* the arguments of time.sleep, in seconds
    delivered,    \* the events the consumer of the generator received
    rl_result     \* how the generator ended

\* Factorial ("my_agent/test copy.py")
VARIABLES
    f_status,     \* "none", "object", or the error __init__ raised
    f_number,     \* self._number
    f_cache,      \* self._factorial_result: <<>> for None, <<v>> for v
    f_returns     \* the methods called on the object and what they returned

retry_vars == <<callers, cfg, wrapper, pc, prev, mtries, mdelay, outcomes,
                sleeps, logs, result>>
rl_vars    == <<rl_pc, rl_args, retries, rl_runs, rl_waits, delivered, rl_result>>
f_vars     == <<f_status, f_number, f_cache, f_returns>>

vars == <<retry_vars, rl_vars, f_vars>>

\* ------------------------------------------------------------ retry(...)
\* Validate without the checks of tries, delay and backoff.
ValidateTupleOnly(a) ==
    IF ~a.exceptions.is_tuple THEN "TypeError" ELSE "f_retry"

\* The argument checks of retry, in order.
Validate(a) ==
    IF a.tries < 1 THEN "ValueError"
    ELSE IF a.delay < 0 THEN "ValueError"
    ELSE IF a.backoff < 1 THEN "ValueError"
    ELSE IF ~a.exceptions.is_tuple THEN "TypeError"
    ELSE "f_retry"

retry(a) ==
    /\ wrapper = "none"
    /\ cfg' = a
    /\ wrapper' = Validate(a)
    /\ UNCHANGED <<callers, pc, prev, mtries, mdelay, outcomes, sleeps, logs, result>>
    /\ UNCHANGED <<rl_vars, f_vars>>

\* ---------------------------------------------------------- f_retry(...)
\* except exceptions as e: the tuple is checked member by member before
\* the raised exception is matched by isinstance.
WellFormed(exceptions) ==
    \A i \in DOMAIN exceptions.items : exceptions.items[i] \in ExceptionClasses

\* except Exception: every failure is caught, whatever the tuple says.
MatchesAll(kind, exceptions) == IsSubclass(kind, "Exception")

Matches(kind, exceptions) ==
    \E i \in DOMAIN exceptions.items : IsSubclass(kind, exceptions.items[i])

\* while mtries > 0: one attempt too many.
InLoopOneMore(m) == m > 0

\* while mtries > 2: one attempt too few.
InLoopOneLess(m) == m > 2

\* while mtries > 1
InLoop(m) == m > 1

\* random.uniform(0, hi), sampled at both ends and in the middle.
Uniform(hi) == {0, hi \div 2, hi}

\* The percentage mode taken for jitter <= 1 instead of jitter < 1.
JitterAmountsInclusive(current_delay, jitter) ==
    IF jitter > 0
    THEN IF jitter <= Scale
         THEN Uniform(current_delay * jitter)
         ELSE Uniform(jitter * Scale)
    ELSE {0}

\* A negative jitter taken as an absolute amount, like one of 1 or more.
JitterAmountsSigned(current_delay, jitter) ==
    IF jitter > 0
    THEN IF jitter < Scale
         THEN Uniform(current_delay * jitter)
         ELSE Uniform(jitter * Scale)
    ELSE IF jitter < 0 THEN {jitter * Scale, 0}
    ELSE {0}

\* The jitter added to current_delay, in fine units.
JitterAmounts(current_delay, jitter) ==
    IF jitter > 0
    THEN IF jitter < Scale
         THEN Uniform(current_delay * jitter)
         ELSE Uniform(jitter * Scale)
    ELSE {0}

\* mdelay += backoff: linear growth instead of exponential.
BackoffLinear(d, backoff) == d + backoff

\* mdelay *= backoff
Backoff(d, backoff) == d * backoff

\* How a call that has ended did so: with a returned value, with the
\* failure of the last attempt permitted, or with a failure inside the loop.
Ending(c) ==
    IF pc[c] = "idle" THEN "none"
    ELSE IF result[c].type = "return" THEN "success"
    ELSE IF ~InLoop(mtries[c]) THEN "exhausted"
    ELSE "propagated"

\* mtries and mdelay kept from the previous call instead of being set anew.
f_retry_enter_stale(c) ==
    /\ wrapper = "f_retry"
    /\ c \in callers
    /\ pc[c] \in {"idle", "done"}
    /\ prev' = [prev EXCEPT ![c] = Ending(c)]
    /\ mtries' = [mtries EXCEPT ![c] = IF pc[c] = "idle" THEN cfg.tries ELSE @]
    /\ mdelay' = [mdelay EXCEPT ![c] = IF pc[c] = "idle" THEN cfg.delay ELSE @]
    /\ outcomes' = [outcomes EXCEPT ![c] = <<>>]
    /\ sleeps' = [sleeps EXCEPT ![c] = <<>>]
    /\ logs' = [logs EXCEPT ![c] = <<>>]
    /\ result' = [result EXCEPT ![c] = NoResult]
    /\ pc' = [pc EXCEPT ![c] = "attempt"]
    /\ UNCHANGED <<callers, cfg, wrapper, rl_vars, f_vars>>

\* mtries, mdelay = tries, delay
f_retry_enter(c) ==
    /\ wrapper = "f_retry"
    /\ c \in callers
    /\ pc[c] \in {"idle", "done"}
    /\ prev' = [prev EXCEPT ![c] = Ending(c)]
    /\ mtries' = [mtries EXCEPT ![c] = cfg.tries]
    /\ mdelay' = [mdelay EXCEPT ![c] = cfg.delay]
    /\ outcomes' = [outcomes EXCEPT ![c] = <<>>]
    /\ sleeps' = [sleeps EXCEPT ![c] = <<>>]
    /\ logs' = [logs EXCEPT ![c] = <<>>]
    /\ result' = [result EXCEPT ![c] = NoResult]
    /\ pc' = [pc EXCEPT ![c] = "attempt"]
    /\ UNCHANGED <<callers, cfg, wrapper, rl_vars, f_vars>>

\* A propagated exception is replaced by a new one that wraps it.
FinishWrapped(c, r) ==
    /\ result' = [result EXCEPT ![c] =
                     IF r.type = "raise" THEN Raised("RetryError", r.val) ELSE r]
    /\ pc' = [pc EXCEPT ![c] = "done"]
    /\ UNCHANGED <<sleeps, logs>>

\* The call ends with r: a returned value or a propagated exception.
Finish(c, r) ==
    /\ result' = [result EXCEPT ![c] = r]
    /\ pc' = [pc EXCEPT ![c] = "done"]
    /\ UNCHANGED <<sleeps, logs>>

\* f"{current_delay:.2f}": the duration dur, in fine units, printed with two
\* decimals, as a number of hundredths of a second.  The value is rounded
\* to the nearest hundredth, a tie to the even one.
Format2f(dur) ==
    LET q   == (dur * 100) \div (Scale * Scale)
        rem == (dur * 100) % (Scale * Scale)
    IN  IF 2 * rem < Scale * Scale THEN q
        ELSE IF 2 * rem > Scale * Scale THEN q + 1
        ELSE IF q % 2 = 0 THEN q ELSE q + 1

\* The warning reports mtries instead of mtries - 1.
WarningCountsThisTry(current_delay, m, e) ==
    [delay |-> Format2f(current_delay), left |-> m,
     kind |-> e.kind, val |-> e.val]

\* logger.warning("Retrying ... in {current_delay:.2f} seconds...
\* ({mtries - 1} tries left) due to: {type(e).__name__}: {e}")
Warning(current_delay, m, e) ==
    [delay |-> Format2f(current_delay), left |-> m - 1,
     kind |-> e.kind, val |-> e.val]

\* One invocation of f with outcome o, inside the loop while mtries > 1
\* or as the last attempt after it, up to the call of time.sleep.
f_retry_attempt(c, b) ==
    /\ pc[c] = "attempt"
    /\ LET o == Outcome(b, Len(outcomes[c]) + 1) IN
       /\ outcomes' = [outcomes EXCEPT ![c] = Append(@, o)]
       /\ IF o.type = "return" THEN Finish(c, o)
          ELSE IF ~InLoop(mtries[c]) THEN Finish(c, o)
          ELSE IF ~WellFormed(cfg.exceptions) THEN Finish(c, MatchError)
          ELSE IF ~Matches(o.kind, cfg.exceptions) THEN Finish(c, o)
          ELSE \E amount \in JitterAmounts(mdelay[c], cfg.jitter) :
                 LET current_delay == mdelay[c] * Scale + amount IN
                 /\ logs' = [logs EXCEPT ![c] =
                                Append(@, Warning(current_delay, mtries[c], o))]
                 /\ sleeps' = [sleeps EXCEPT ![c] =
                                  Append(@, [base |-> mdelay[c],
                                             dur  |-> current_delay])]
                 /\ pc' = [pc EXCEPT ![c] = "sleeping"]
                 /\ UNCHANGED result
    /\ UNCHANGED <<callers, cfg, wrapper, prev, mtries, mdelay, rl_vars, f_vars>>

\* mtries and mdelay held once for the wrapper instead of once per call.
f_retry_wake_shared(c) ==
    /\ pc[c] = "sleeping"
    /\ mtries' = [t \in Threads |-> IF pc[t] = "idle" THEN mtries[t] ELSE mtries[t] - 1]
    /\ mdelay' = [t \in Threads |->
                    IF pc[t] = "idle" THEN mdelay[t] ELSE Backoff(mdelay[t], cfg.backoff)]
    /\ pc' = [pc EXCEPT ![c] = "attempt"]
    /\ UNCHANGED <<callers, cfg, wrapper, prev, outcomes, sleeps, logs, result>>
    /\ UNCHANGED <<rl_vars, f_vars>>

\* mdelay = current_delay * backoff: the jitter of this sleep is carried
\* into the next base delay (in whole ticks).
f_retry_wake_compound(c) ==
    /\ pc[c] = "sleeping"
    /\ mtries' = [mtries EXCEPT ![c] = @ - 1]
    /\ mdelay' = [mdelay EXCEPT ![c] =
                     Backoff(sleeps[c][Len(sleeps[c])].dur \div Scale, cfg.backoff)]
    /\ pc' = [pc EXCEPT ![c] = "attempt"]
    /\ UNCHANGED <<callers, cfg, wrapper, prev, outcomes, sleeps, logs, result>>
    /\ UNCHANGED <<rl_vars, f_vars>>

\* After the sleep the loop starts over: mtries, mdelay = tries, delay, and
\* the call forgets the attempts it has made.
f_retry_wake_restart(c) ==
    /\ pc[c] = "sleeping"
    /\ mtries' = [mtries EXCEPT ![c] = cfg.tries]
    /\ mdelay' = [mdelay EXCEPT ![c] = cfg.delay]
    /\ outcomes' = [outcomes EXCEPT ![c] = <<>>]
    /\ sleeps' = [sleeps EXCEPT ![c] = <<>>]
    /\ logs' = [logs EXCEPT ![c] = <<>>]
    /\ pc' = [pc EXCEPT ![c] = "attempt"]
    /\ UNCHANGED <<callers, cfg, wrapper, prev, result>>
    /\ UNCHANGED <<rl_vars, f_vars>>

\* time.sleep returns: mtries -= 1; mdelay *= backoff; back to the loop test.
f_retry_wake(c) ==
    /\ pc[c] = "sleeping"
    /\ mtries' = [mtries EXCEPT ![c] = @ - 1]
    /\ mdelay' = [mdelay EXCEPT ![c] = Backoff(@, cfg.backoff)]
    /\ pc' = [pc EXCEPT ![c] = "attempt"]
    /\ UNCHANGED <<callers, cfg, wrapper, prev, outcomes, sleeps, logs, result>>
    /\ UNCHANGED <<rl_vars, f_vars>>

\* ------------------------------------------- run_with_rate_limit_handling
\* Error messages are strings, modelled as sequences of characters.
LowerCase ==
    ("A" :> "a") @@ ("B" :> "b") @@ ("C" :> "c") @@ ("D" :> "d") @@
    ("E" :> "e") @@ ("F" :> "f") @@ ("G" :> "g") @@ ("H" :> "h") @@
    ("I" :> "i") @@ ("J" :> "j") @@ ("K" :> "k") @@ ("L" :> "l") @@
    ("M" :> "m") @@ ("N" :> "n") @@ ("O" :> "o") @@ ("P" :> "p") @@
    ("Q" :> "q") @@ ("R" :> "r") @@ ("S" :> "s") @@ ("T" :> "t") @@
    ("U" :> "u") @@ ("V" :> "v") @@ ("W" :> "w") @@ ("X" :> "x") @@
    ("Y" :> "y") @@ ("Z" :> "z")

\* error_msg.lower()
Lower(msg) ==
    [i \in DOMAIN msg |->
        IF msg[i] \in DOMAIN LowerCase THEN LowerCase[msg[i]] ELSE msg[i]]

\* pattern in msg
Contains(msg, pattern) ==
    \E i \in 0..(Len(msg) - Len(pattern)) :
        \A j \in 1..Len(pattern) : msg[i + j] = pattern[j]

\* Every error is taken for a rate limit error.
IsRateLimitAlways(msg) == TRUE

\* "429" in error_msg or "rate limit" in error_msg.lower()
\* or "quota" in error_msg.lower()
IsRateLimit(msg) ==
    \/ Contains(msg, <<"4", "2", "9">>)
    \/ Contains(Lower(msg), <<"r", "a", "t", "e", " ", "l", "i", "m", "i", "t">>)
    \/ Contains(Lower(msg), <<"q", "u", "o", "t", "a">>)

\* The errors runner.run raises in the model.
Msg429        == <<"H", "T", "T", "P", " ", "4", "2", "9">>
MsgRateLimit  == <<"R", "a", "t", "e", " ", "L", "i", "m", "i", "t">>
MsgQuotaUpper == <<"Q", "U", "O", "T", "A">>
MsgQuota      == <<"q", "u", "o", "t", "a", " ", "h", "i", "t">>
MsgSplit429   == <<"4", "2", " ", "9">>
MsgRatelimit  == <<"r", "a", "t", "e", "l", "i", "m", "i", "t">>
MsgTimeout    == <<"T", "i", "m", "e", "o", "u", "t">>
MsgEmpty      == <<>>

ErrorMessages ==
    {Msg429, MsgRateLimit, MsgQuotaUpper, MsgQuota,
     MsgSplit429, MsgRatelimit, MsgTimeout, MsgEmpty}

NoError    == [type |-> "none", msg |-> <<>>]
Completed  == [type |-> "return", msg |-> <<>>]
Error(msg) == [type |-> "raise", msg |-> msg]

\* The first j events of a run of runner.run; every run yields the same
\* events in the same order.
EventsOfRun(j) == [i \in 1..j |-> i]

\* An event the consumer already has is not yielded to it again.
YieldedOnce(sofar, k) ==
    IF \E i \in DOMAIN sofar : sofar[i] = EventsOfRun(k)[k]
    THEN sofar
    ELSE Append(sofar, EventsOfRun(k)[k])

\* yield event, for the k-th event of the run.
Yielded(sofar, k) == Append(sofar, EventsOfRun(k)[k])

\* The consumer closed the generator: GeneratorExit at the yield.
Closed == [type |-> "closed", msg |-> <<>>]

\* The exceptions the consumer throws into the generator: one that names a
\* rate limit and one that does not.
ThrownMessages == {MsgQuota, MsgTimeout}

RlArgs == [max_retries : -1..MaxRetries, base_delay : 0..MaxBaseDelay]

\* while retries <= max_retries
LoopTest(r, max_retries) == r <= max_retries

\* if retries >= max_retries: one retry too few.
GivesUpEarly(r, max_retries) == r >= max_retries

\* if retries > max_retries
GivesUp(r, max_retries) == r > max_retries

\* base_delay * (2 ** retries): the first wait already doubled.
RetryDelayDoubled(base_delay, r) == base_delay * Pow(2, r)

\* delay = base_delay * (2 ** (retries - 1))
RetryDelay(base_delay, r) == base_delay * Pow(2, r - 1)

\* A local of the generator that has not been assigned.
Unset == "unset"

\* The call: a generator is created with the arguments bound; its body has
\* not started, and the consumer runs.
rl_call(a) ==
    /\ rl_pc = "idle"
    /\ rl_args' = a
    /\ rl_pc' = "created"
    /\ UNCHANGED <<retries, rl_runs, rl_waits, delivered, rl_result>>
    /\ UNCHANGED <<retry_vars, f_vars>>

\* The consumer's first next(): retries = 0 and the first loop test.
rl_start ==
    /\ rl_pc = "created"
    /\ retries' = 0
    /\ IF LoopTest(0, rl_args.max_retries)
       THEN rl_pc' = "running" /\ rl_result' = NoError
       ELSE rl_pc' = "done" /\ rl_result' = Completed
    /\ UNCHANGED <<rl_args, rl_runs, rl_waits, delivered>>
    /\ UNCHANGED <<retry_vars, f_vars>>

\* The consumer closes the generator before its body has started.
rl_close_created ==
    /\ rl_pc = "created"
    /\ rl_pc' = "done"
    /\ rl_result' = Closed
    /\ UNCHANGED <<rl_args, retries, rl_runs, rl_waits, delivered>>
    /\ UNCHANGED <<retry_vars, f_vars>>

\* The consumer throws an exception into the generator before its body has
\* started: it is raised outside the try block and comes straight back.
rl_throw_created(msg) ==
    /\ rl_pc = "created"
    /\ rl_pc' = "done"
    /\ rl_result' = Error(msg)
    /\ UNCHANGED <<rl_args, retries, rl_runs, rl_waits, delivered>>
    /\ UNCHANGED <<retry_vars, f_vars>>

\* events = runner.run(...): a run is started.
rl_run ==
    /\ rl_pc = "running"
    /\ rl_runs' = Append(rl_runs, [events |-> 0, out |-> NoError, thrown |-> FALSE])
    /\ rl_pc' = "iterating"
    /\ UNCHANGED <<rl_args, retries, rl_waits, delivered, rl_result>>
    /\ UNCHANGED <<retry_vars, f_vars>>

\* for event in events: yield event.  The run hands over its next event and
\* the generator is suspended at the yield, where the consumer runs.
rl_yield ==
    /\ rl_pc = "iterating"
    /\ LET n == Len(rl_runs) IN
       /\ rl_runs[n].events < NumEvents
       /\ rl_runs' = [rl_runs EXCEPT ![n].events = @ + 1]
       /\ delivered' = Yielded(delivered, rl_runs[n].events + 1)
    /\ rl_pc' = "suspended"
    /\ UNCHANGED <<rl_args, retries, rl_waits, rl_result>>
    /\ UNCHANGED <<retry_vars, f_vars>>

\* The consumer asks for the next event: the for loop goes on.
rl_next ==
    /\ rl_pc = "suspended"
    /\ rl_pc' = "iterating"
    /\ UNCHANGED <<rl_args, retries, rl_runs, rl_waits, delivered, rl_result>>
    /\ UNCHANGED <<retry_vars, f_vars>>

\* The consumer stops iterating and closes the generator: GeneratorExit is
\* raised at the yield, and except Exception does not catch it.
rl_close ==
    /\ rl_pc = "suspended"
    /\ rl_runs' = [rl_runs EXCEPT ![Len(rl_runs)].out = Closed]
    /\ rl_pc' = "done"
    /\ rl_result' = Closed
    /\ UNCHANGED <<rl_args, retries, rl_waits, delivered>>
    /\ UNCHANGED <<retry_vars, f_vars>>

\* The run is exhausted after its NumEvents events: break.
rl_complete ==
    /\ rl_pc = "iterating"
    /\ rl_runs[Len(rl_runs)].events = NumEvents
    /\ rl_runs' = [rl_runs EXCEPT ![Len(rl_runs)].out = Completed]
    /\ rl_pc' = "done"
    /\ rl_result' = Completed
    /\ UNCHANGED <<rl_args, retries, rl_waits, delivered>>
    /\ UNCHANGED <<retry_vars, f_vars>>

\* except Exception as e, for the error out raised in the try block: a
\* rate limit error is counted and, unless the retries are used up, the
\* generator sleeps; any other error is raised again.
Except(out, thrown) ==
    /\ rl_runs' = [rl_runs EXCEPT ![Len(rl_runs)].out = out,
                                  ![Len(rl_runs)].thrown = thrown]
    /\ IF IsRateLimit(out.msg)
       THEN /\ retries' = retries + 1
            /\ IF GivesUp(retries + 1, rl_args.max_retries)
               THEN /\ rl_pc' = "done"
                    /\ rl_result' = out
                    /\ UNCHANGED rl_waits
               ELSE /\ rl_waits' = Append(rl_waits,
                                          RetryDelay(rl_args.base_delay, retries + 1))
                    /\ rl_pc' = "sleeping"
                    /\ UNCHANGED rl_result
       ELSE /\ rl_pc' = "done"
            /\ rl_result' = out
            /\ UNCHANGED <<retries, rl_waits>>
    /\ UNCHANGED <<rl_args, delivered>>
    /\ UNCHANGED <<retry_vars, f_vars>>

\* runner.run raises, before its first event or between two events.
rl_raise(msg) ==
    /\ rl_pc = "iterating"
    /\ Except(Error(msg), FALSE)

\* The consumer throws an exception into the generator suspended at the
\* yield: it is raised inside the try block.
rl_throw(msg) ==
    /\ rl_pc = "suspended"
    /\ Except(Error(msg), TRUE)

\* time.sleep(delay) returns: back to the loop test.
rl_wake ==
    /\ rl_pc = "sleeping"
    /\ IF LoopTest(retries, rl_args.max_retries)
       THEN rl_pc' = "running" /\ rl_result' = NoError
       ELSE rl_pc' = "done" /\ rl_result' = Completed
    /\ UNCHANGED <<rl_args, retries, rl_runs, rl_waits, delivered>>
    /\ UNCHANGED <<retry_vars, f_vars>>

\* --------------------------------------------------------------- Factorial
\* The arguments Factorial(...) is called with: integers, and 4.5.
FactorialInputs ==
    {[is_int |-> TRUE, val |-> n] : n \in -1..MaxN} \cup
    {[is_int |-> FALSE, val |-> 4]}

\* Factorial.__init__
f_init(x) ==
    /\ f_status = "none"
    /\ IF ~x.is_int
       THEN f_status' = "TypeError" /\ UNCHANGED <<f_number, f_cache>>
       ELSE IF x.val < 0
       THEN f_status' = "ValueError" /\ UNCHANGED <<f_number, f_cache>>
       ELSE /\ f_status' = "object"
            /\ f_number' = x.val
            /\ f_cache' = <<>>
    /\ UNCHANGED <<f_returns, retry_vars, rl_vars>>

\* result = 1; for i in range(1, n + 1): result *= i, from i on.
RECURSIVE Loop(_, _, _)
Loop(i, n, acc) ==
    IF i >= n + 1 THEN acc ELSE Loop(i + 1, n, acc * i)

\* The result is returned, but the cache is left with the initial value 1
\* of the loop.
CalculateCachesOne(number, cache) ==
    IF cache # <<>> THEN [ret |-> cache[1], cache |-> cache]
    ELSE [ret |-> Loop(1, number, 1), cache |-> <<1>>]

\* for i in range(1, n): the last factor is left out.
CalculateShortLoop(number, cache) ==
    IF cache # <<>> THEN [ret |-> cache[1], cache |-> cache]
    ELSE IF number = 0 THEN [ret |-> 1, cache |-> <<1>>]
    ELSE [ret |-> Loop(1, number - 1, 1), cache |-> <<Loop(1, number - 1, 1)>>]

\* Factorial.calculate: the value returned and the cache afterwards.
Calculate(number, cache) ==
    IF cache # <<>> THEN [ret |-> cache[1], cache |-> cache]
    ELSE IF number = 0 THEN [ret |-> 1, cache |-> <<1>>]
    ELSE [ret |-> Loop(1, number, 1), cache |-> <<Loop(1, number, 1)>>]

\* math.factorial
RECURSIVE MathFactorial(_)
MathFactorial(n) == IF n <= 1 THEN 1 ELSE n * MathFactorial(n - 1)

f_calculate ==
    /\ f_status = "object"
    /\ Len(f_returns) < MaxOps
    /\ LET r == Calculate(f_number, f_cache) IN
       /\ f_cache' = r.cache
       /\ f_returns' = Append(f_returns, [op |-> "calculate", val |-> r.ret])
    /\ UNCHANGED <<f_status, f_number, retry_vars, rl_vars>>

\* Factorial.__call__: return self.calculate()
f_call ==
    /\ f_status = "object"
    /\ Len(f_returns) < MaxOps
    /\ LET r == Calculate(f_number, f_cache) IN
       /\ f_cache' = r.cache
       /\ f_returns' = Append(f_returns, [op |-> "__call__", val |-> r.ret])
    /\ UNCHANGED <<f_status, f_number, retry_vars, rl_vars>>

\* Factorial.using_math_module; the test self._number < 0 never succeeds on
\* an object that __init__ has made.
f_using_math_module ==
    /\ f_status = "object"
    /\ Len(f_returns) < MaxOps
    /\ f_number >= 0
    /\ f_returns' = Append(f_returns, [op |-> "using_math_module",
                                       val |-> MathFactorial(f_number)])
    /\ UNCHANGED <<f_status, f_number, f_cache, retry_vars, rl_vars>>

\* ---------------------------------------------------------- specification
\* No call of run_with_rate_limit_handling has been made.
rl_idle ==
    /\ rl_pc = "idle"
    /\ rl_args = [max_retries |-> 3, base_delay |-> 60]
    /\ retries = Unset
    /\ rl_runs = <<>>
    /\ rl_waits = <<>>
    /\ delivered = <<>>
    /\ rl_result = NoError

\* No Factorial object has been made.
f_none ==
    /\ f_status = "none"
    /\ f_number = 0
    /\ f_cache = <<>>
    /\ f_returns = <<>>

\* No retry decorator has been made.
retry_none(cs) ==
    /\ callers = cs
    /\ cfg = DefaultArgs
    /\ wrapper = "none"
    /\ pc = [c \in Threads |-> "idle"]
    /\ prev = [c \in Threads |-> "none"]
    /\ mtries = [c \in Threads |-> 0]
    /\ mdelay = [c \in Threads |-> 0]
    /\ outcomes = [c \in Threads |-> <<>>]
    /\ sleeps = [c \in Threads |-> <<>>]
    /\ logs = [c \in Threads |-> <<>>]
    /\ result = [c \in Threads |-> NoResult]

InitWith(cs) == retry_none(cs) /\ rl_idle /\ f_none

Init == InitWith({1})

Next ==
    \/ \E a \in Args : retry(a)
    \/ \E c \in Threads : f_retry_enter(c)
    \/ \E c \in Threads, b \in Behaviours : f_retry_attempt(c, b)
    \/ \E c \in Threads : f_retry_wake(c)

Spec == Init /\ [][Next]_vars

\* Every invocation of f ends and every sleep ends: a call that is at an
\* invocation or in a sleep takes its next step.  Every number of tries,
\* backoff and exception tuple is covered, on one delay and two jitters.
TermArgs == {a \in Args : a.delay \in {-1, 1} /\ a.jitter \in {0, 1}}

NextTerm ==
    \/ \E a \in TermArgs : retry(a)
    \/ \E c \in Threads : f_retry_enter(c)
    \/ \E c \in Threads, b \in Behaviours : f_retry_attempt(c, b)
    \/ \E c \in Threads : f_retry_wake(c)

SpecTerm ==
    /\ Init /\ [][NextTerm]_vars
    /\ \A c \in Threads :
          /\ WF_vars(\E b \in Behaviours : f_retry_attempt(c, b))
          /\ WF_vars(f_retry_wake(c))

\* Two callers of the same wrapper, interleaved at every invocation and at
\* every sleep, under the configurations of ConcArgs.
ConcArgs ==
    {a \in Args : /\ a.jitter = 0
                  /\ a.delay \in {-1, 1}
                  /\ a.exceptions \in {TupleOf(<<"ConnectionError", "TimeoutError">>),
                                       BareClass("Exception")}}

InitConc == InitWith(Threads)

NextConc ==
    \/ \E a \in ConcArgs : retry(a)
    \/ \E c \in Threads : f_retry_enter(c)
    \/ \E c \in Threads, b \in Behaviours : f_retry_attempt(c, b)
    \/ \E c \in Threads : f_retry_wake(c)

SpecConc == InitConc /\ [][NextConc]_vars

\* The decorator of the first demo: retry(tries=4, delay=1, backoff=2,
\* jitter=0.5) on flaky_function_any_exception.
DemoArgs ==
    [tries |-> 4, delay |-> 1 * Scale, backoff |-> 2, jitter |-> Scale \div 2,
     exceptions |-> TupleOf(<<"Exception">>)]

NextDemo ==
    \/ retry(DemoArgs)
    \/ \E c \in Threads : f_retry_enter(c)
    \/ \E c \in Threads, b \in Behaviours : f_retry_attempt(c, b)
    \/ \E c \in Threads : f_retry_wake(c)

SpecDemo == Init /\ [][NextDemo]_vars

\* One consumer of run_with_rate_limit_handling.
NextRL ==
    \/ \E a \in RlArgs : rl_call(a)
    \/ rl_start
    \/ rl_close_created
    \/ \E msg \in ThrownMessages : rl_throw_created(msg)
    \/ rl_run
    \/ rl_yield
    \/ rl_next
    \/ rl_close
    \/ rl_complete
    \/ \E msg \in ErrorMessages : rl_raise(msg)
    \/ \E msg \in ThrownMessages : rl_throw(msg)
    \/ rl_wake

SpecRL == Init /\ [][NextRL]_vars

\* One Factorial object and the methods called on it.
NextFactorial ==
    \/ \E x \in FactorialInputs : f_init(x)
    \/ f_calculate
    \/ f_call
    \/ f_using_math_module

SpecFactorial == Init /\ [][NextFactorial]_vars

\* ================================================================ claims
\* The notions the claims are stated in.

Last(s) == s[Len(s)]

\* The program holds a retry configuration: retry accepted the arguments
\* and the retryable set is a set of failure kinds.
Configured ==
    /\ wrapper = "f_retry"
    /\ \A i \in DOMAIN cfg.exceptions.items :
          cfg.exceptions.items[i] \in ExceptionClasses

\* The kinds of the configured retryable set: a kind belongs to it when it
\* is one of the listed classes or derives from one.
RetryableKinds ==
    {k \in RaisedKinds :
        \E t \in {cfg.exceptions.items[i] : i \in DOMAIN cfg.exceptions.items} :
            IsSubclass(k, t)}

RetryableFailure(o)    == o.type = "raise" /\ o.kind \in RetryableKinds
NonRetryableFailure(o) == o.type = "raise" /\ o.kind \notin RetryableKinds

\* Every invocation of the call of thread c so far failed with a retryable kind.
AllRetryable(c) ==
    \A i \in DOMAIN outcomes[c] : RetryableFailure(outcomes[c][i])

Ended(c) == pc[c] = "done"

\* C1: with tries = N >= 1, a call whose every invocation fails with a
\* retryable kind invokes the operation exactly N times, sleeps exactly N-1
\* times and ends with the failure of the last invocation; before it ends it
\* has made fewer than N invocations or is making the N-th.
C1_ExhaustionAfterNTries ==
    \A c \in Threads :
        (Configured /\ pc[c] # "idle" /\ AllRetryable(c)) =>
            IF Ended(c)
            THEN /\ Len(outcomes[c]) = cfg.tries
                 /\ Len(sleeps[c]) = cfg.tries - 1
                 /\ result[c].type = "raise"
                 /\ result[c] = Last(outcomes[c])
            ELSE Len(outcomes[c]) < cfg.tries

\* Witness of C1: a call under tries = MaxTries has ended after MaxTries
\* retryable failures and MaxTries - 1 sleeps.
C1_Witness ==
    \E c \in Threads :
        /\ Configured /\ Ended(c) /\ AllRetryable(c)
        /\ cfg.tries = MaxTries
        /\ Len(outcomes[c]) = MaxTries
        /\ Len(sleeps[c]) = MaxTries - 1
        /\ result[c].type = "raise"

\* C2: an invocation that fails with a kind outside the retryable set is the
\* last invocation of its call, on any attempt: the call has ended with
\* that failure and no sleep follows it.
C2_NonRetryablePropagates ==
    \A c \in Threads :
        \A i \in DOMAIN outcomes[c] :
            (Configured /\ NonRetryableFailure(outcomes[c][i])) =>
                /\ i = Len(outcomes[c])
                /\ Ended(c)
                /\ result[c] = outcomes[c][i]
                /\ Len(sleeps[c]) = i - 1

\* Witness of C2: a non-retryable failure on the first attempt ended a call
\* that had MaxTries attempts, with no sleep.
C2_Witness ==
    \E c \in Threads :
        /\ Configured /\ Ended(c)
        /\ cfg.tries = MaxTries
        /\ Len(outcomes[c]) = 1
        /\ NonRetryableFailure(outcomes[c][1])
        /\ sleeps[c] = <<>>
        /\ result[c] = outcomes[c][1]

\* C3: a call whose invocations 1..k-1 fail with a retryable kind and whose
\* invocation k succeeds, k <= tries, returns the result of invocation k
\* after exactly k invocations and k-1 sleeps.
C3_SuccessOnAttemptK ==
    \A c \in Threads :
        \A k \in DOMAIN outcomes[c] :
            (/\ Configured
             /\ outcomes[c][k].type = "return"
             /\ \A i \in 1..(k - 1) : RetryableFailure(outcomes[c][i])) =>
                /\ k <= cfg.tries
                /\ Len(outcomes[c]) = k
                /\ Ended(c)
                /\ result[c] = Returned(k)
                /\ Len(sleeps[c]) = k - 1

\* Witness of C3: success on the last attempt permitted, k = tries = MaxTries.
C3_Witness ==
    \E c \in Threads :
        /\ Configured /\ Ended(c)
        /\ cfg.tries = MaxTries
        /\ Len(outcomes[c]) = MaxTries
        /\ \A i \in 1..(MaxTries - 1) : RetryableFailure(outcomes[c][i])
        /\ result[c] = Returned(MaxTries)
        /\ Len(sleeps[c]) = MaxTries - 1

\* C4: whatever the outcomes, a call makes at most tries invocations, makes
\* none after an invocation that succeeded, and does not end normally when
\* its last invocation failed.
C4_BoundedAndNothingSwallowed ==
    \A c \in Threads :
        /\ wrapper = "f_retry" => Len(outcomes[c]) <= cfg.tries
        /\ wrapper # "f_retry" => outcomes[c] = <<>>
        /\ \A i \in DOMAIN outcomes[c] :
              outcomes[c][i].type = "return" => i = Len(outcomes[c]) /\ Ended(c)
        /\ (Ended(c) /\ Last(outcomes[c]).type = "raise") => result[c].type = "raise"
        /\ (Ended(c) /\ result[c].type = "return") => result[c] = Last(outcomes[c])

\* Witness of C4: a call used all its MaxTries invocations, the last one
\* failed and the call raised.
C4_Witness ==
    \E c \in Threads :
        /\ Ended(c)
        /\ cfg.tries = MaxTries
        /\ Len(outcomes[c]) = MaxTries
        /\ Last(outcomes[c]).type = "raise"
        /\ result[c].type = "raise"

\* C5: with jitter = 0 the sleep before invocation i (2 <= i <= tries) lasts
\* exactly delay * backoff^(i-2); the sleep before invocation i is sleep i-1.
C5_DelaySequence ==
    \A c \in Threads :
        cfg.jitter = 0 =>
            \A r \in DOMAIN sleeps[c] :
                sleeps[c][r].dur = cfg.delay * Pow(cfg.backoff, r - 1) * Scale

\* Witness of C5: two sleeps without jitter under a backoff above 1 and a
\* positive delay, the second longer than the first.
C5_Witness ==
    \E c \in Threads :
        /\ cfg.jitter = 0 /\ cfg.backoff > 1 /\ cfg.delay > 0
        /\ Len(sleeps[c]) = 2
        /\ sleeps[c][2].dur = cfg.delay * cfg.backoff * Scale

\* C6: every sleep lies within the jitter bounds of its base delay: the base
\* itself for jitter = 0, [base, base * (1 + jitter)] for 0 < jitter < 1 and
\* [base, base + jitter] for jitter >= 1 (in fine units).
C6_JitterBounds ==
    \A c \in Threads :
        \A r \in DOMAIN sleeps[c] :
            LET base == sleeps[c][r].base * Scale
                dur  == sleeps[c][r].dur
            IN  /\ cfg.jitter = 0 => dur = base
                /\ (0 < cfg.jitter /\ cfg.jitter < Scale) =>
                      base <= dur /\ dur <= base + sleeps[c][r].base * cfg.jitter
                /\ cfg.jitter >= Scale =>
                      base <= dur /\ dur <= base + cfg.jitter * Scale

\* Witness of C6: with jitter exactly 1 a sleep of base + 1 second on a base
\* delay other than 1 second, which is the upper end of the absolute mode
\* and not of the percentage mode.
C6_Witness ==
    \E c \in Threads :
        \E r \in DOMAIN sleeps[c] :
            /\ cfg.jitter = Scale
            /\ sleeps[c][r].base > Scale
            /\ sleeps[c][r].dur = sleeps[c][r].base * Scale + Scale * Scale

\* C7: retry called with tries < 1, a negative delay or backoff < 1 raises:
\* no wrapper exists and the operation is never invoked.
C7_InvalidArgumentsRejected ==
    (wrapper # "none" /\ (cfg.tries < 1 \/ cfg.delay < 0 \/ cfg.backoff < 1)) =>
        /\ wrapper = "ValueError"
        /\ \A c \in Threads : pc[c] = "idle" /\ outcomes[c] = <<>>

\* Witness of C7: retry has raised on backoff < 1 alone.
C7_Witness ==
    /\ wrapper = "ValueError"
    /\ cfg.tries >= 1 /\ cfg.delay >= 0 /\ cfg.backoff < 1
    /\ cfg.exceptions.is_tuple

\* C8: a call that ends in failure hands the caller the failure of its last
\* invocation, the same kind and content, and not that of an earlier one.
C8_FailureUnchanged ==
    \A c \in Threads :
        (Configured /\ Ended(c) /\ result[c].type = "raise") =>
            /\ result[c] = Last(outcomes[c])
            /\ \A i \in 1..(Len(outcomes[c]) - 1) : result[c] # outcomes[c][i]

\* Witness of C8: exhaustion after failures of the same kind on every
\* attempt; the caller holds the failure of attempt MaxTries.
C8_Witness ==
    \E c \in Threads :
        /\ Configured /\ Ended(c)
        /\ Len(outcomes[c]) = MaxTries
        /\ \A i \in DOMAIN outcomes[c] : outcomes[c][i].kind = "ConnectionError"
        /\ result[c] = Raised("ConnectionError", MaxTries)

\* What a call does when it runs alone, given the outcomes of its
\* invocations (C1 to C5): it goes on exactly while the invocations fail with
\* a retryable kind and fewer than tries were made, it has slept once per
\* failed invocation but the last, and the base delay of sleep r is
\* delay * backoff^(r-1).
AsAlone(c) ==
    LET n == Len(outcomes[c]) IN
    /\ n <= cfg.tries
    /\ \A i \in 1..(n - 1) : RetryableFailure(outcomes[c][i])
    /\ Ended(c) <=> (n >= 1 /\ (~RetryableFailure(outcomes[c][n]) \/ n = cfg.tries))
    /\ Len(sleeps[c]) = IF Ended(c) THEN n - 1 ELSE n
    /\ \A r \in DOMAIN sleeps[c] :
          sleeps[c][r].base = cfg.delay * Pow(cfg.backoff, r - 1)

\* C9: calls of the same wrapper that run concurrently do not share attempt
\* state: each makes the invocations and the base delays it would make
\* alone on its own outcomes, and no step changes the configuration.
C9_ConcurrentCallsIndependent ==
    /\ [](\A c \in Threads : (Configured /\ pc[c] # "idle") => AsAlone(c))
    /\ [][wrapper # "none" => (cfg' = cfg /\ wrapper' = wrapper)]_vars

\* Witness of C9: both calls are under way at different attempts, one about
\* to make its third invocation while the other is asleep after its first
\* failure.
C9_Witness ==
    /\ Configured
    /\ cfg.backoff > 1
    /\ pc[1] = "attempt" /\ Len(sleeps[1]) = 2
    /\ pc[2] = "sleeping" /\ Len(sleeps[2]) = 1
    /\ mtries[1] # mtries[2] /\ mdelay[1] # mdelay[2]

\* C10: a call made after another call of the same thread has ended, however
\* that one ended, again has tries invocations and starts from the
\* configured delay: it ends by exhaustion after exactly tries invocations,
\* not sooner, and its first sleep has base delay.
C10_FreshAttemptState ==
    \A c \in Threads :
        prev[c] # "none" =>
            /\ Len(outcomes[c]) <= cfg.tries
            /\ (Configured /\ AllRetryable(c) /\ Ended(c)) =>
                  Len(outcomes[c]) = cfg.tries
            /\ (Configured /\ AllRetryable(c) /\ ~Ended(c)) =>
                  Len(outcomes[c]) < cfg.tries
            /\ sleeps[c] # <<>> => sleeps[c][1].base = cfg.delay

\* Witness of C10: after a call that ended by exhaustion, the next call has
\* again used MaxTries invocations, its first sleep on the configured delay.
C10_Witness ==
    \E c \in Threads :
        /\ prev[c] = "exhausted"
        /\ Configured /\ cfg.tries = MaxTries /\ cfg.delay > 0 /\ cfg.backoff > 1
        /\ Ended(c) /\ AllRetryable(c)
        /\ Len(outcomes[c]) = MaxTries
        /\ sleeps[c][1].base = cfg.delay

\* C11: a malformed retryable-kind set, a value that is not a tuple or a
\* tuple with a member that is no exception type, makes retry fail when
\* it is called: no wrapper is made and the operation is never invoked.
C11_MalformedSetRejected ==
    (/\ wrapper # "none"
     /\ \/ ~cfg.exceptions.is_tuple
        \/ \E i \in DOMAIN cfg.exceptions.items :
              cfg.exceptions.items[i] \notin ExceptionClasses) =>
        /\ wrapper # "f_retry"
        /\ \A c \in Threads : pc[c] = "idle" /\ outcomes[c] = <<>>

\* C12: under the decorator of the first demo the jitter added to a sleep is
\* at most half a second: every sleep lasts at most its base delay plus
\* 0.5 s.
C12_DemoJitterAtMostHalfSecond ==
    \A c \in Threads :
        \A r \in DOMAIN sleeps[c] :
            cfg = DemoArgs =>
                sleeps[c][r].dur <= sleeps[c][r].base * Scale + (Scale * Scale) \div 2

\* ------------------------------------ run_with_rate_limit_handling claims
\* The messages of the model that name a rate limit, and those that do not:
\* "HTTP 429", "Rate Limit", "QUOTA" and "quota hit" against "42 9",
\* "ratelimit", "Timeout" and the empty message.
RateLimitMessages == {Msg429, MsgRateLimit, MsgQuotaUpper, MsgQuota}
PlainMessages     == {MsgSplit429, MsgRatelimit, MsgTimeout, MsgEmpty}

RateLimited(run) == run.out.type = "raise" /\ run.out.msg \in RateLimitMessages
PlainFailure(run) == run.out.type = "raise" /\ run.out.msg \in PlainMessages

\* C13: with max_retries = M >= 0 one consumption of the generator starts
\* runner.run at most M+1 times and sleeps at most M times; when every run
\* fails with a rate limit error there are exactly M+1 runs and M sleeps and
\* the error of run M+1 is raised to the consumer.  A generator the consumer
\* ends before its body has started makes no run at all.
C13_AtMostMaxRetries ==
    (rl_pc # "idle" /\ rl_args.max_retries >= 0) =>
        LET M == rl_args.max_retries IN
        /\ Len(rl_runs) <= M + 1
        /\ Len(rl_waits) <= M
        /\ (\A i \in DOMAIN rl_runs : RateLimited(rl_runs[i])) =>
              IF rl_pc = "done"
              THEN \/ /\ rl_runs = <<>>
                      /\ rl_waits = <<>>
                      /\ delivered = <<>>
                      /\ rl_result # Completed
                   \/ /\ Len(rl_runs) = M + 1
                      /\ Len(rl_waits) = M
                      /\ rl_result = rl_runs[M + 1].out
              ELSE Len(rl_runs) <= M /\ Len(rl_waits) = Len(rl_runs)

\* Witness of C13: MaxRetries + 1 runs have failed with a rate limit error
\* and the last error was raised after MaxRetries sleeps.
C13_Witness ==
    /\ rl_pc = "done"
    /\ rl_args.max_retries = MaxRetries
    /\ Len(rl_runs) = MaxRetries + 1
    /\ \A i \in DOMAIN rl_runs : RateLimited(rl_runs[i])
    /\ Len(rl_waits) = MaxRetries
    /\ rl_result.type = "raise"

\* C14: the wait before retry r is base_delay * 2^(r-1): the first wait is
\* base_delay and each later wait is double the one before.
C14_WaitsDouble ==
    \A r \in DOMAIN rl_waits :
        /\ rl_waits[r] = IF r = 1 THEN rl_args.base_delay ELSE 2 * rl_waits[r - 1]
        /\ rl_waits[r] = rl_args.base_delay * Pow(2, r - 1)

\* Witness of C14: two waits on a positive base delay.
C14_Witness ==
    /\ rl_args.base_delay > 0
    /\ Len(rl_waits) = 2
    /\ rl_waits[1] = rl_args.base_delay
    /\ rl_waits[2] = 2 * rl_args.base_delay

\* C19: an error whose message names no rate limit is raised to the consumer
\* at once: the run that raised it is the last one, no sleep follows it,
\* whatever the number of retries left.
C19_OtherErrorsRaisedAtOnce ==
    \A i \in DOMAIN rl_runs :
        PlainFailure(rl_runs[i]) =>
            /\ i = Len(rl_runs)
            /\ rl_pc = "done"
            /\ rl_result = rl_runs[i].out
            /\ Len(rl_waits) = i - 1

\* Witness of C19: with retries left, the second run fails with "ratelimit",
\* which names no rate limit, after a first run that was retried.
C19_Witness ==
    /\ rl_args.max_retries = MaxRetries
    /\ Len(rl_runs) = 2
    /\ RateLimited(rl_runs[1])
    /\ rl_runs[2].out = Error(MsgRatelimit)
    /\ rl_pc = "done"
    /\ rl_result = Error(MsgRatelimit)
    /\ Len(rl_waits) = 1

\* -------------------------------------------------------- Factorial claims
\* n! for the numbers of the model, as a table; 0! = 1.
FactorialTable == <<1, 2, 6, 24, 120, 720, 5040, 40320>>
NFactorial(n) == IF n = 0 THEN 1 ELSE FactorialTable[n]

\* C15: on an object made for n >= 0, calculate(), the call of the object
\* and using_math_module() all return n!.
C15_CalculateIsFactorial ==
    f_status = "object" =>
        /\ f_number >= 0
        /\ \A i \in DOMAIN f_returns : f_returns[i].val = NFactorial(f_number)

\* Witness of C15: the three methods were called on Factorial(MaxN), each
\* once, and returned MaxN!.
C15_Witness ==
    /\ f_status = "object"
    /\ f_number = MaxN
    /\ {f_returns[i].op : i \in DOMAIN f_returns} =
          {"calculate", "__call__", "using_math_module"}
    /\ \A i \in DOMAIN f_returns : f_returns[i].val = NFactorial(MaxN)

\* C20: whatever methods are called on a Factorial object, its number never
\* changes, its cache is unset or holds number!, and every calculate()
\* returns what the first one returned.
C20_ObjectStateStable ==
    /\ [](f_status = "object" =>
            /\ f_cache \in {<<>>, <<NFactorial(f_number)>>}
            /\ \A i, j \in DOMAIN f_returns :
                  (f_returns[i].op = "calculate" /\ f_returns[j].op = "calculate") =>
                      f_returns[i].val = f_returns[j].val)
    /\ [][f_status = "object" =>
            (f_status' = "object" /\ f_number' = f_number)]_vars

\* Witness of C20: calculate() was called again, after using_math_module(),
\* on an object whose cache the first calculate() had filled.
C20_Witness ==
    /\ f_status = "object"
    /\ f_number = MaxN
    /\ Len(f_returns) = 3
    /\ f_returns[1].op = "calculate"
    /\ f_returns[2].op = "using_math_module"
    /\ f_returns[3].op = "calculate"
    /\ f_cache = <<NFactorial(MaxN)>>

\* ------------------------------------------------- retry claims, continued
\* The largest jitter the configuration allows on a base delay, in fine
\* units.
MaxJitter(base) ==
    IF cfg.jitter <= 0 THEN 0
    ELSE IF cfg.jitter < Scale THEN base * cfg.jitter
    ELSE cfg.jitter * Scale

\* C16: jitter is not compounded into the backoff: whatever the jitter
\* setting and the amounts drawn, the base delay of the r-th sleep is
\* delay * backoff^(r-1), and the jitter of that sleep lies in the range that
\* this base delay alone determines.
C16_JitterNotCompounded ==
    \A c \in Threads :
        \A r \in DOMAIN sleeps[c] :
            LET base == cfg.delay * Pow(cfg.backoff, r - 1) IN
            /\ sleeps[c][r].base = base
            /\ sleeps[c][r].dur - base * Scale \in 0..MaxJitter(base)

\* Witness of C16: a second sleep after a first one that drew a jitter of
\* at least one tick, under a backoff above 1.
C16_Witness ==
    \E c \in Threads :
        /\ cfg.jitter > 0 /\ cfg.backoff > 1 /\ cfg.delay > 0
        /\ Len(sleeps[c]) = 2
        /\ sleeps[c][1].dur >= (sleeps[c][1].base + 1) * Scale
        /\ sleeps[c][2].base = cfg.delay * cfg.backoff

\* C17: within a call invocations and sleeps alternate: no sleep precedes
\* the first invocation, exactly one sleep lies between two consecutive
\* invocations and it follows a retryable failure, and the invocation made
\* with one attempt left ends the call without a sleep, its failure, of any
\* kind, being the failure of the call.
C17_InvocationsAndSleepsAlternate ==
    \A c \in Threads :
        pc[c] # "idle" =>
            LET n == Len(outcomes[c])
                s == Len(sleeps[c])
            IN  /\ pc[c] = "attempt" => s = n
                /\ pc[c] = "sleeping" => s = n /\ n >= 1 /\ n < cfg.tries
                /\ pc[c] = "done" => s = n - 1
                /\ \A i \in 1..s : RetryableFailure(outcomes[c][i])
                /\ n = cfg.tries => Ended(c) /\ result[c] = outcomes[c][n]

\* Witness of C17: the last attempt permitted failed with a kind outside
\* the retryable set after MaxTries - 1 sleeps, and the call raised it.
C17_Witness ==
    \E c \in Threads :
        /\ Configured /\ Ended(c)
        /\ cfg.tries = MaxTries
        /\ Len(outcomes[c]) = MaxTries
        /\ Len(sleeps[c]) = MaxTries - 1
        /\ NonRetryableFailure(outcomes[c][MaxTries])
        /\ result[c] = outcomes[c][MaxTries]

\* C18, as claimed: one warning per sleep, logged with it; the delay it
\* records is the duration slept and the tries left it records are tries
\* minus the invocations made.
C18_LogRecordsSleep ==
    \A c \in Threads :
        /\ Len(logs[c]) = Len(sleeps[c])
        /\ \A r \in DOMAIN logs[c] :
              /\ logs[c][r].delay * Scale * Scale = sleeps[c][r].dur * 100
              /\ logs[c][r].left = cfg.tries - r

\* C18, amended: one warning per sleep, logged with it; the delay it
\* records is the duration slept rounded to two decimals, at most half a
\* hundredth of a second away from it, and the tries left it records are
\* tries minus the invocations made; it names the failure of the
\* invocation before the sleep.
C18_LogRecordsRoundedSleep ==
    \A c \in Threads :
        /\ Len(logs[c]) = Len(sleeps[c])
        /\ \A r \in DOMAIN logs[c] :
              LET d == logs[c][r].delay * Scale * Scale - sleeps[c][r].dur * 100 IN
              /\ 2 * d <= Scale * Scale /\ 2 * d >= -(Scale * Scale)
              /\ logs[c][r].left = cfg.tries - r
              /\ logs[c][r].kind = outcomes[c][r].kind
              /\ logs[c][r].val = outcomes[c][r].val

\* Witness of C18: two warnings, the second for a sleep whose duration is no
\* whole number of hundredths of a second.
C18_Witness ==
    \E c \in Threads :
        /\ Len(logs[c]) = 2 /\ Len(sleeps[c]) = 2
        /\ logs[c][2].delay * Scale * Scale # sleeps[c][2].dur * 100
        /\ logs[c][2].left = cfg.tries - 2

\* C21: every call of the wrapper ends, with a result or with a failure,
\* when every invocation of f and every sleep ends: a call that has been
\* entered is eventually done, whatever the outcomes of the invocations.
C21_EveryCallEnds ==
    \A c \in Threads : (pc[c] \in {"attempt", "sleeping"}) ~> (pc[c] = "done")

\* Witness of C21: a call has ended with a returned value at the last
\* attempt permitted, after MaxTries - 1 failures and as many sleeps.
C21_Witness ==
    \E c \in Threads :
        /\ pc[c] = "done"
        /\ cfg.tries = MaxTries
        /\ Len(outcomes[c]) = MaxTries
        /\ Len(sleeps[c]) = MaxTries - 1
        /\ result[c].type = "return"

\* C22: under every accepted configuration, a negative jitter included, no
\* sleep is shorter than its base delay, the base delays of a call do not
\* decrease, and so every sleep lasts at least the configured delay.
C22_SleepAtLeastBaseDelay ==
    \A c \in Threads :
        \A r \in DOMAIN sleeps[c] :
            /\ sleeps[c][r].dur >= sleeps[c][r].base * Scale
            /\ r > 1 => sleeps[c][r].base >= sleeps[c][r - 1].base
            /\ sleeps[c][r].dur >= cfg.delay * Scale

\* Witness of C22: two sleeps under a negative jitter, a positive delay
\* and a backoff above 1.
C22_Witness ==
    \E c \in Threads :
        /\ wrapper = "f_retry"
        /\ cfg.jitter < 0 /\ cfg.delay > 0 /\ cfg.backoff > 1
        /\ Len(sleeps[c]) = 2
        /\ sleeps[c][1].dur = cfg.delay * Scale
        /\ sleeps[c][2].base > sleeps[c][1].base

\* The number of events the runs before run i yielded.
RECURSIVE EventsBefore(_)
EventsBefore(i) ==
    IF i <= 1 THEN 0 ELSE EventsBefore(i - 1) + rl_runs[i - 1].events

\* C23: what the consumer has received is the concatenation, run after run,
\* of the events each run yielded before it failed or completed, every run
\* starting again at the first event: nothing is withdrawn and an event can
\* be received more than once.
C23_DeliveredIsConcatenation ==
    /\ Len(delivered) = EventsBefore(Len(rl_runs) + 1)
    /\ \A i \in DOMAIN rl_runs :
          \A k \in 1..rl_runs[i].events :
              delivered[EventsBefore(i) + k] = k

\* Witness of C23: a run failed with a rate limit error after its first
\* event, the retry completed, and the consumer has that event twice.
C23_Witness ==
    /\ Len(rl_runs) = 2
    /\ rl_runs[1].events = 1 /\ RateLimited(rl_runs[1])
    /\ rl_runs[2].out = Completed
    /\ rl_pc = "done"
    /\ Len(rl_waits) = 1
    /\ delivered = <<1>> \o [i \in 1..NumEvents |-> i]

====
